---- MODULE Spec2Model ----
(***************************************************************************)
(* Model of the particle system of src/src/main.c: the frame loop of main, *)
(* the kinematics work items of UpdateParticlesMultithreaded, the two      *)
(* density-writer work items, the combiner and the pixel mapping (Spec);   *)
(* of the thread-pool wrapper of src/src/threadpool.c (PoolSpec); of the   *)
(* two buffer combiners as functions of their arguments (CombinerSpec);    *)
(* and of the two whole-buffer loops, CombineDensityBuffers and            *)
(* ApplyDensityToPixelsSIMD, on buffers of any size (LoopSpec).  FairSpec  *)
(* is Spec under fair scheduling of the main thread and the pool threads.  *)
(*                                                                         *)
(* The compile-time configuration (PARTICLE_COUNT, MAX_THREADS) is drawn   *)
(* from small sets in Init; the screen is scaled down to ScreenWidth x     *)
(* ScreenHeight cells.  Single-precision values are represented in fixed   *)
(* point with Scale units per 1.0f, plus the special values NaN and the    *)
(* two infinities; every arithmetic operation rounds to the nearest        *)
(* representable value, as the hardware does.                              *)
(***************************************************************************)
EXTENDS Integers, Sequences, FiniteSets, TLC

(***************************************************************************)
(* Bounds of the model.                                                    *)
(***************************************************************************)
MaxCount == 24          \* PARTICLE_COUNT ranges over 0..MaxCount
MaxThreadCount == 3     \* MAX_THREADS ranges over 1..MaxThreadCount
MaxPoolThreads == 2     \* threads the pool actually runs: 1..MaxPoolThreads
MaxFrames == 3          \* iterations of the frame loop
MaxFailures == 1        \* startup acquisitions that fail in one run
MaxCalls == 4           \* calls a caller of threadpool.c makes
MaxCombines == 2        \* combiner calls made on the drawn buffers
MaxBufferSize == 17     \* bufferSize of the whole-buffer loops: 0..MaxBufferSize
MaxDensityArg == 6      \* maxDensity passed: 1..MaxDensityArg, and MaxDensity
MaxBase == 40           \* count of element 0 of a drawn density buffer

(***************************************************************************)
(* Program constants (the screen is scaled down, the others are exact in   *)
(* units of 1/Scale).                                                      *)
(***************************************************************************)
LaneWidth == 8          \* floats per __m256
ScreenWidth == 4        \* SCREEN_WIDTH
ScreenHeight == 2       \* SCREEN_HEIGHT
Scale == 10 * 10 * 10   \* fixed-point units per 1.0f (three decimal digits)
AttractionStrength == 200   \* ATTRACTION_STRENGHT 0.2000f
Friction == 999         \* FRICTION 0.999f
MaxDensity == 50        \* maxDensity argument of ApplyDensityToPixelsSIMD

VARIABLES
    count,          \* PARTICLE_COUNT, also particles.count
    threadCount,    \* MAX_THREADS
    poolThreads,    \* number of threads the pool runs (1..maximum)
    pc,             \* position of the main thread
    idx,            \* loop variable i of UpdateParticlesMultithreaded
    frame,          \* number of frame-loop iterations started
    mousePos,       \* mousePos of the current frame, <<x, y>>
    posX, posY, velX, velY,   \* the four particle arrays
    args,           \* ThreadArgs args[threadCount]
    kin,            \* workItems[threadCount] and each callback's position
    den,            \* workItemA / workItemB and each callback's position
    buffer,         \* the two density buffers: buffer.A, buffer.B
    pixels,         \* the Color array: one [r, g, b, a] per cell
    updated,        \* history: kernel applications per particle, this frame
    denWrites,      \* history: indices each density writer wrote, this frame
    doneOrder,      \* history: order the density writers finished, this frame
    nullWork,       \* history: work items whose creation failed, this frame
    arraysFreed,    \* number of times FreeParticles released the arrays
    failed,         \* the startup acquisitions that returned NULL
    \* src/src/threadpool.c and its caller
    tpRes,          \* the structure, tp->pool and tp->callBackEnviron
    tpReleases,     \* history: release calls made on each of the three
    tpStale,        \* history: accesses to the structure after free(tp)
    tpHandle,       \* the caller's SimpleThreadPool pointer
    tpWork,         \* the work items SimpleThreadPool_Submit enqueued
    tpCall,         \* the last call of the caller and what it returned
    \* the combiners on buffers of their own
    cmem,           \* three int buffers: cmem.A, cmem.B, cmem.C
    cpixels,        \* the Color array the presence combiner writes
    combines,       \* number of combiner calls made
    \* the two whole-buffer loops on buffers of any size
    lsize,          \* the bufferSize passed, and the size of each allocation
    lmax,           \* the maxDensity passed
    lmem,           \* two int buffers of lsize elements: lmem.A, lmem.B
    lpixels,        \* the Color array of lsize elements
    ltouched,       \* history: accesses the last call made to each index
    lcall           \* the last call made, "fault" if it ended the process

mainVars == <<count, threadCount, poolThreads, pc, idx, frame, mousePos,
              posX, posY, velX, velY, args, kin, den, buffer, pixels,
              updated, denWrites, doneOrder, nullWork, arraysFreed, failed>>
poolVars == <<tpRes, tpReleases, tpStale, tpHandle, tpWork, tpCall>>
combinerVars == <<cmem, cpixels, combines>>
loopVars == <<lsize, lmax, lmem, lpixels, ltouched, lcall>>
vars == <<mainVars, poolVars, combinerVars, loopVars>>

\* what the particle system does not touch
elsewhere == <<poolVars, combinerVars, loopVars>>

config == <<count, threadCount, poolThreads>>
particleArrays == <<posX, posY, velX, velY>>
history == <<updated, denWrites, doneOrder, nullWork>>

Cells == 0 .. (ScreenWidth * ScreenHeight - 1)
Indices == 0 .. (count - 1)
Slots == 0 .. (threadCount - 1)
BufferNames == {"A", "B"}

(***************************************************************************)
(* Single-precision arithmetic in fixed point.  A finite value v stands    *)
(* for v / Scale.  NaN, PosInf and NegInf lie outside the finite range.    *)
(***************************************************************************)
NaN == 2000000000
PosInf == 1999999999
NegInf == -1999999999

IsNaN(a) == a = NaN
IsInf(a) == a = PosInf \/ a = NegInf
IsFinite(a) == ~IsNaN(a) /\ ~IsInf(a)

Abs(a) == IF a < 0 THEN -a ELSE a
Sign(a) == IF a < 0 THEN -1 ELSE IF a > 0 THEN 1 ELSE 0
SignedInf(s) == IF s < 0 THEN NegInf ELSE PosInf

\* a / b rounded to the nearest integer, symmetric in the sign (b > 0)
RoundDiv(a, b) == Sign(a) * ((2 * Abs(a) + b) \div (2 * b))

\* The operations below take their operands by value: each is a function
\* applied to the operands, so that an operand is computed once however
\* often the operation reads it.

\* the largest r in lo .. hi with r * r <= n, by bisection
RECURSIVE SqrtSearch(_, _, _)
SqrtSearch(n, lo, hi) ==
    IF lo >= hi THEN lo
    ELSE LET half[mid \in Int] ==
                 IF mid * mid <= n THEN SqrtSearch(n, mid, hi)
                                   ELSE SqrtSearch(n, lo, mid - 1)
         IN  half[(lo + hi + 1) \div 2]

\* the integer nearest to the square root of n >= 0
ISqrt(n) ==
    LET nearest[r \in Int] == IF n - r * r > r THEN r + 1 ELSE r
    IN  nearest[SqrtSearch(n, 0, IF n < 46340 THEN n ELSE 46340)]

FNeg(a) == IF IsNaN(a) THEN NaN ELSE IF IsInf(a) THEN SignedInf(-Sign(a)) ELSE -a

\* _mm256_add_ps, one lane
FAdd(a, b) ==
    LET add[x \in Int, y \in Int] ==
            IF IsNaN(x) \/ IsNaN(y) THEN NaN
            ELSE IF IsInf(x) /\ IsInf(y) THEN (IF x = y THEN x ELSE NaN)
            ELSE IF IsInf(x) THEN x
            ELSE IF IsInf(y) THEN y
            ELSE x + y
    IN  add[a, b]

\* _mm256_sub_ps, one lane
FSub(a, b) == FAdd(a, FNeg(b))

\* a * b / Scale rounded to the nearest integer: the whole units of a are
\* multiplied exactly, so that the intermediate product stays small
MulScaled(a, b) ==
    Sign(a) * Sign(b)
        * ((Abs(a) \div Scale) * Abs(b) + RoundDiv((Abs(a) % Scale) * Abs(b), Scale))

\* _mm256_mul_ps, one lane
FMul(a, b) ==
    LET mul[x \in Int, y \in Int] ==
            IF IsNaN(x) \/ IsNaN(y) THEN NaN
            ELSE IF IsInf(x) \/ IsInf(y)
                 THEN (IF x = 0 \/ y = 0 THEN NaN
                                        ELSE SignedInf(Sign(x) * Sign(y)))
            ELSE MulScaled(x, y)
    IN  mul[a, b]

\* _mm256_div_ps, one lane: 0/0 and Inf/Inf are NaN, x/0 is an infinity
FDiv(a, b) ==
    LET div[x \in Int, y \in Int] ==
            IF IsNaN(x) \/ IsNaN(y) THEN NaN
            ELSE IF IsInf(x) /\ IsInf(y) THEN NaN
            ELSE IF IsInf(x) THEN SignedInf(Sign(x) * (IF y < 0 THEN -1 ELSE 1))
            ELSE IF IsInf(y) THEN 0
            ELSE IF y = 0 THEN (IF x = 0 THEN NaN ELSE SignedInf(Sign(x)))
            ELSE Sign(y) * RoundDiv(x * Scale, Abs(y))
    IN  div[a, b]

\* sqrt(dx*dx + dy*dy): the sum of squares is kept exact (in units of
\* 1/Scale^2), so the distance is 0 exactly when both differences are 0
Dist(dx, dy) ==
    LET dist[x \in Int, y \in Int] ==
            IF IsNaN(x) \/ IsNaN(y) THEN NaN
            ELSE IF IsInf(x) \/ IsInf(y) THEN PosInf
            ELSE ISqrt(x * x + y * y)
    IN  dist[dx, dy]

\* (int)f of C on x86: truncation toward zero; NaN and values outside the
\* range of int give the "integer indefinite" value INT_MIN (cvttss2si)
IntIndefinite == -2147483647 - 1
FloatToInt(a) ==
    IF ~IsFinite(a) THEN IntIndefinite
    ELSE IF a >= 0 THEN a \div Scale ELSE -((-a) \div Scale)

\* (float)n for a small integer n
IntToFloat(n) == n * Scale

(***************************************************************************)
(* The kinematics kernel for one lane (particle k), with the attractor m.  *)
(***************************************************************************)
KernelLane(k, m) ==
    LET diffX == FSub(m[1], posX[k])
        diffY == FSub(m[2], posY[k])
        dist == Dist(diffX, diffY)
        normX == FDiv(diffX, dist)
        normY == FDiv(diffY, dist)
        vx == FMul(FAdd(velX[k], FMul(normX, AttractionStrength)), Friction)
        vy == FMul(FAdd(velY[k], FMul(normY, AttractionStrength)), Friction)
    IN  [posX |-> FAdd(posX[k], vx), posY |-> FAdd(posY[k], vy),
         velX |-> vx, velY |-> vy]

(***************************************************************************)
(* Work items of the Windows thread pool.  st is the item's position:      *)
(* "none" (no item: a NULL handle), "created", "submitted" (callback        *)
(* pending), "running", "done" (callback returned).  it is the callback's  *)
(* loop variable i, closes counts the CloseThreadpoolWork calls on the     *)
(* item and ctx is the Context pointer the item was created with: the      *)
(* index of the ThreadArgs slot or of the UpdateContext object.            *)
(***************************************************************************)
NoItem == [st |-> "none", it |-> 0, closes |-> 0, ctx |-> 0]
NewItem(c) == [st |-> "created", it |-> 0, closes |-> 0, ctx |-> c]

Outstanding(item) == item.st \in {"submitted", "running"}

\* SubmitThreadpoolWork
Submitted(item) == [item EXCEPT !.st = "submitted"]

\* faulty variant of WaitReturns: the wait is left out
WaitReturnsAtOnce(item) == TRUE

\* WaitForThreadpoolWorkCallbacks(work, FALSE) returns once no callback of
\* the item is pending or running
WaitReturns(item) == ~Outstanding(item)

\* CloseThreadpoolWork
Closed(item) == [item EXCEPT !.closes = @ + 1]

\* callbacks running on the pool's threads
Running == {<<"kin", i>> : i \in {j \in Slots : kin[j].st = "running"}}
           \cup {<<"den", b>> : b \in {c \in BufferNames : den[c].st = "running"}}

\* a pool thread is free to pick up a pending callback
ThreadFree == Cardinality(Running) < poolThreads

(***************************************************************************)
(* The partition of UpdateParticlesMultithreaded.                          *)
(***************************************************************************)
ParticlesPerThread == count \div threadCount
\* faulty variant of ChunkStart: an off-by-one first index
ChunkStartOffByOne(i) == i * ParticlesPerThread + 1
ChunkStart(i) == i * ParticlesPerThread
\* faulty variant of ChunkEnd: every chunk runs to the end of the arrays
ChunkEndWholeArray(i) == count
ChunkEnd(i) == (i + 1) * ParticlesPerThread

\* faulty variant of UpdateContext: the second sub-range starts one late
UpdateContextGap(b) ==
    [buffer |-> b,
     start |-> IF b = "A" THEN 0 ELSE count \div 2 + 1,
     end |-> IF b = "A" THEN count \div 2 ELSE count,
     bufferWidth |-> ScreenWidth,
     bufferHeight |-> ScreenHeight]

\* the contexts of the two density writers
UpdateContext(b) ==
    [buffer |-> b,
     start |-> IF b = "A" THEN 0 ELSE count \div 2,
     end |-> IF b = "A" THEN count \div 2 ELSE count,
     bufferWidth |-> ScreenWidth,
     bufferHeight |-> ScreenHeight]

\* GetMousePosition: the positions the pointer takes in the model
MousePositions ==
    {<<0, 0>>, <<IntToFloat(ScreenWidth - 1), IntToFloat(ScreenHeight - 1)>>}

ZeroBuffer == [c \in Cells |-> 0]
UnwrittenPixel == [r |-> -1, g |-> -1, b |-> -1, a |-> -1]

(***************************************************************************)
(* The parts of the state a specification does not use stay as they are    *)
(* here.                                                                   *)
(***************************************************************************)
TpParts == {"struct", "pool", "env"}
NoCall == [n |-> 0, op |-> "none", arg |-> "none", context |-> 0,
           created |-> "none", ret |-> "none"]

MainUnused ==
    /\ count = 0 /\ threadCount = 1 /\ poolThreads = 1
    /\ pc = "unused" /\ idx = 0 /\ frame = 0 /\ mousePos = <<0, 0>>
    /\ posX = <<>> /\ posY = <<>> /\ velX = <<>> /\ velY = <<>>
    /\ args = <<>> /\ kin = <<>> /\ den = <<>> /\ buffer = <<>> /\ pixels = <<>>
    /\ updated = <<>> /\ denWrites = <<>> /\ doneOrder = <<>> /\ nullWork = {}
    /\ arraysFreed = 0 /\ failed = {}

PoolUnused ==
    /\ tpRes = [r \in TpParts |-> "none"]
    /\ tpReleases = [r \in TpParts |-> 0]
    /\ tpStale = 0
    /\ tpHandle = "unset"
    /\ tpWork = <<>>
    /\ tpCall = NoCall

CombinerUnused ==
    /\ cmem = <<>>
    /\ cpixels = <<>>
    /\ combines = 0

LoopUnused ==
    /\ lsize = 0 /\ lmax = 1
    /\ lmem = <<>> /\ lpixels = <<>> /\ ltouched = <<>>
    /\ lcall = "unused"

(***************************************************************************)
(* Initial state: the configuration is chosen, nothing is allocated.       *)
(***************************************************************************)
Init ==
    /\ PoolUnused
    /\ CombinerUnused
    /\ LoopUnused
    /\ count \in 0 .. MaxCount
    /\ threadCount \in 1 .. MaxThreadCount
    /\ poolThreads \in 1 .. MaxPoolThreads
    /\ pc = "assert"
    /\ idx = 0
    /\ frame = 0
    /\ mousePos = <<0, 0>>
    /\ posX = <<>> /\ posY = <<>> /\ velX = <<>> /\ velY = <<>>
    /\ args = [i \in Slots |-> [start |-> 0, end |-> 0, mousePos |-> <<0, 0>>]]
    /\ kin = [i \in Slots |-> NoItem]
    /\ den = [b \in BufferNames |-> NoItem]
    /\ buffer = [b \in BufferNames |-> <<>>]
    /\ pixels = <<>>
    /\ updated = <<>>
    /\ denWrites = [b \in BufferNames |-> {}]
    /\ doneOrder = <<>>
    /\ nullWork = {}
    /\ arraysFreed = 0
    /\ failed = {}

(***************************************************************************)
(* main, up to the frame loop.                                             *)
(***************************************************************************)
\* faulty variant of MainAssert: the assertion is left out
MainAssertLeftOut ==
    /\ pc = "assert"
    /\ pc' = "startup"
    /\ UNCHANGED <<elsewhere, config, failed, idx, frame, mousePos,
                   particleArrays, args, kin, den, buffer, pixels, history,
                   arraysFreed>>

\* assert(PARTICLE_COUNT % 8 == 0 && ...)
MainAssert ==
    /\ pc = "assert"
    /\ pc' = IF count % LaneWidth = 0 THEN "startup" ELSE "aborted"
    /\ UNCHANGED <<elsewhere, config, failed, idx, frame, mousePos,
                   particleArrays, args, kin, den, buffer, pixels, history,
                   arraysFreed>>

\* CreateParticles: scanline placement, zero velocity
ScanlineX(i) == IntToFloat(i % ScreenWidth)
ScanlineY(i) == IntToFloat(i \div ScreenWidth)

\* what main acquires before the frame loop: the pool
\* (InitializeThreadPoolWithMaxThreads), pixels (malloc), bufferA and
\* bufferB (AllocateAlignedIntBuffer) and the four particle arrays
\* (_aligned_malloc in CreateParticles); each of them may come back NULL
ArrayNames == {"posX", "posY", "velX", "velY"}
Resources == {"pool", "pixels", "bufferA", "bufferB"} \cup ArrayNames

\* the resource behind buffer b
BufferResource(b) == IF b = "A" THEN "bufferA" ELSE "bufferB"

\* an allocation that failed leaves a NULL pointer: no element at all
Allocated(f, name, contents) == IF name \in f THEN <<>> ELSE contents

\* pool, pixel array, the two zeroed buffers, the particles.  No result is
\* tested: a NULL pool or pixel or density buffer is carried into the frame
\* loop, a NULL particle array is written by the first iteration of the
\* placement loop of CreateParticles, which ends the process
Startup ==
    /\ pc = "startup"
    /\ \E f \in {g \in SUBSET Resources : Cardinality(g) <= MaxFailures} :
        /\ failed' = f
        /\ pixels' = Allocated(f, "pixels", [c \in Cells |-> UnwrittenPixel])
        /\ buffer' = [b \in BufferNames |->
                         Allocated(f, BufferResource(b), ZeroBuffer)]
        /\ posX' = Allocated(f, "posX", [i \in Indices |-> ScanlineX(i)])
        /\ posY' = Allocated(f, "posY", [i \in Indices |-> ScanlineY(i)])
        /\ velX' = Allocated(f, "velX", [i \in Indices |-> 0])
        /\ velY' = Allocated(f, "velY", [i \in Indices |-> 0])
        /\ pc' = IF count > 0 /\ f \cap ArrayNames # {} THEN "crashed" ELSE "loop"
    /\ updated' = [i \in Indices |-> 0]
    /\ UNCHANGED <<elsewhere, config, idx, frame, mousePos, args, kin, den,
                   denWrites, doneOrder, nullWork, arraysFreed>>

(***************************************************************************)
(* The frame loop of main.                                                 *)
(***************************************************************************)
\* while (!WindowShouldClose()): the window stays open, a frame starts
FrameBegin ==
    /\ pc = "loop"
    /\ frame < MaxFrames
    /\ \E m \in MousePositions : mousePos' = m
    /\ frame' = frame + 1
    /\ idx' = 0
    /\ pc' = "kin_submit"
    /\ updated' = [i \in Indices |-> 0]
    /\ denWrites' = [b \in BufferNames |-> {}]
    /\ doneOrder' = <<>>
    /\ nullWork' = {}
    /\ UNCHANGED <<elsewhere, config, failed, particleArrays, args, kin, den,
                   buffer, pixels, arraysFreed>>

\* faulty variant of ArgsSlot: every work item is given &args[0]
ArgsSlotShared(i) == 0

\* the ThreadArgs slot of loop index i: &args[i]
ArgsSlot(i) == i

\* UpdateParticlesMultithreaded, first loop: fill args[i], create and submit
\* workItems[i]
\* CreateThreadpoolWork returns NULL when it fails; the result is passed to
\* SubmitThreadpoolWork as it is, and a NULL work item there is an access
\* violation
KinSubmit ==
    /\ pc = "kin_submit"
    /\ args' = [args EXCEPT ![ArgsSlot(idx)] = [start |-> ChunkStart(idx),
                                                end |-> ChunkEnd(idx),
                                                mousePos |-> mousePos]]
    /\ \E created \in BOOLEAN :
        IF created
        THEN /\ kin' = [kin EXCEPT ![idx] = Submitted(NewItem(ArgsSlot(idx)))]
             /\ idx' = IF idx + 1 < threadCount THEN idx + 1 ELSE 0
             /\ pc' = IF idx + 1 < threadCount THEN "kin_submit" ELSE "kin_wait"
             /\ nullWork' = nullWork
        ELSE /\ kin' = [kin EXCEPT ![idx] = NoItem]
             /\ idx' = idx
             /\ pc' = "crashed"
             /\ nullWork' = nullWork \cup {<<"kin", idx>>}
    /\ UNCHANGED <<elsewhere, config, failed, frame, mousePos, particleArrays,
                   den, buffer, pixels, updated, denWrites, doneOrder,
                   arraysFreed>>

\* UpdateParticlesMultithreaded, second loop: wait for workItems[i], close it
KinJoin ==
    /\ pc = "kin_wait"
    /\ WaitReturns(kin[idx])
    /\ kin' = [kin EXCEPT ![idx] = Closed(@)]
    /\ idx' = IF idx + 1 < threadCount THEN idx + 1 ELSE 0
    /\ pc' = IF idx + 1 < threadCount THEN "kin_wait" ELSE "den_create"
    /\ UNCHANGED <<elsewhere, config, failed, frame, mousePos, particleArrays,
                   args, den, buffer, pixels, history, arraysFreed>>

\* the UpdateContext objects of main: &updateContextA, &updateContextB
ContextIndex(b) == IF b = "A" THEN 0 ELSE 1
ContextName(c) == IF c = 0 THEN "A" ELSE "B"

\* CreateThreadpoolWork for workItemA and workItemB; either may come back
\* NULL
DenCreate ==
    /\ pc = "den_create"
    /\ \E created \in SUBSET BufferNames :
        /\ den' = [b \in BufferNames |->
                      IF b \in created THEN NewItem(ContextIndex(b)) ELSE NoItem]
        /\ nullWork' = nullWork \cup {<<"den", b>> : b \in BufferNames \ created}
    /\ pc' = "den_submitA"
    /\ UNCHANGED <<elsewhere, config, failed, idx, frame, mousePos,
                   particleArrays, args, kin, buffer, pixels, updated,
                   denWrites, doneOrder, arraysFreed>>

\* SubmitThreadpoolWork(workItemA), then (workItemB); a NULL work item is
\* an access violation
DenSubmit(b, next) ==
    /\ den' = [den EXCEPT ![b] = IF @ = NoItem THEN @ ELSE Submitted(@)]
    /\ pc' = IF den[b] = NoItem THEN "crashed" ELSE next
    /\ UNCHANGED <<elsewhere, config, failed, idx, frame, mousePos,
                   particleArrays, args, kin, buffer, pixels, history,
                   arraysFreed>>

DenSubmitA == pc = "den_submitA" /\ DenSubmit("A", "den_submitB")
DenSubmitB == pc = "den_submitB" /\ DenSubmit("B", "den_waitA")

\* WaitForThreadpoolWorkCallbacks(workItemA, FALSE), then (workItemB, FALSE)
DenWait(b, next) ==
    /\ WaitReturns(den[b])
    /\ pc' = next
    /\ UNCHANGED <<elsewhere, config, failed, idx, frame, mousePos,
                   particleArrays, args, kin, den, buffer, pixels, history,
                   arraysFreed>>

\* faulty variant of DenWaitB: workItemB is not waited for
DenWaitBLeftOut ==
    /\ pc = "den_waitB"
    /\ pc' = "den_close"
    /\ UNCHANGED <<elsewhere, config, failed, idx, frame, mousePos,
                   particleArrays, args, kin, den, buffer, pixels, history,
                   arraysFreed>>

DenWaitA == pc = "den_waitA" /\ DenWait("A", "den_waitB")
DenWaitB == pc = "den_waitB" /\ DenWait("B", "den_close")

\* faulty variant of DenClose: workItemB is never closed
DenCloseOnlyA ==
    /\ pc = "den_close"
    /\ den' = [den EXCEPT !["A"] = Closed(@)]
    /\ pc' = "combine"
    /\ UNCHANGED <<elsewhere, config, failed, idx, frame, mousePos,
                   particleArrays, args, kin, buffer, pixels, history,
                   arraysFreed>>

\* CloseThreadpoolWork(workItemA); CloseThreadpoolWork(workItemB)
DenClose ==
    /\ pc = "den_close"
    /\ den' = [b \in BufferNames |-> Closed(den[b])]
    /\ pc' = "combine"
    /\ UNCHANGED <<elsewhere, config, failed, idx, frame, mousePos,
                   particleArrays, args, kin, buffer, pixels, history,
                   arraysFreed>>

(***************************************************************************)
(* CombineDensityBuffers(bufferA, bufferB, combinedBuffer, bufferSize) on  *)
(* the buffers mem; a, b and out name the buffers the pointers refer to    *)
(* (out may be a).  Each iteration loads 8 elements of a and of b and      *)
(* stores the 8 sums.                                                      *)
(***************************************************************************)
Block(i) == i .. (i + LaneWidth - 1)

\* the largest int; IntIndefinite is the smallest
IntMax == -(IntIndefinite + 1)

\* faulty variant of Add32: the second operand is dropped
Add32KeepsFirst(a, b) == a

\* _mm256_add_epi32, one lane: the sum of two ints modulo 2^32
Add32(a, b) ==
    IF a > 0 /\ b > 0 /\ a > IntMax - b
        THEN (a + IntIndefinite) + (b + IntIndefinite)
    ELSE IF a < 0 /\ b < 0 /\ a < IntIndefinite - b
        THEN (a - IntIndefinite) + (b - IntIndefinite)
    ELSE a + b

\* _mm256_or_si256, one lane: the bitwise OR of two ints in two's
\* complement
RECURSIVE BitOr(_, _)
BitOr(a, b) ==
    IF a = 0 THEN b
    ELSE IF b = 0 THEN a
    ELSE IF a = -1 \/ b = -1 THEN -1
    ELSE 2 * BitOr(a \div 2, b \div 2)
         + (IF a % 2 = 1 \/ b % 2 = 1 THEN 1 ELSE 0)

RECURSIVE CombineDensityBuffers(_, _, _, _, _, _)
CombineDensityBuffers(mem, a, b, out, i, bufferSize) ==
    IF i >= bufferSize THEN mem
    ELSE CombineDensityBuffers(
             [mem EXCEPT ![out] =
                 [j \in DOMAIN mem[out] |->
                     IF j \in Block(i) THEN Add32(mem[a][j], mem[b][j])
                                       ELSE mem[out][j]]],
             a, b, out, i + LaneWidth, bufferSize)

\* faulty variant of Combine: the sums are stored into bufferB
CombineStoresIntoB ==
    /\ pc = "combine"
    /\ buffer' = CombineDensityBuffers(buffer, "A", "B", "B", 0,
                                       ScreenWidth * ScreenHeight)
    /\ pc' = "apply"
    /\ UNCHANGED <<elsewhere, config, failed, idx, frame, mousePos,
                   particleArrays, args, kin, den, pixels, history,
                   arraysFreed>>

\* CombineDensityBuffers(bufferA, bufferB, bufferA, SCREEN_WIDTH * SCREEN_HEIGHT)
Combine ==
    /\ pc = "combine"
    /\ buffer' = CombineDensityBuffers(buffer, "A", "B", "A", 0,
                                       ScreenWidth * ScreenHeight)
    /\ pc' = "apply"
    /\ UNCHANGED <<elsewhere, config, failed, idx, frame, mousePos,
                   particleArrays, args, kin, den, pixels, history,
                   arraysFreed>>

(***************************************************************************)
(* ApplyDensityToPixelsSIMD(densityBuffer, pixels, bufferSize, maxDensity) *)
(***************************************************************************)
\* _mm256_cvtps_epi32, one lane: round to nearest, ties to even
RoundToInt(a) ==
    IF ~IsFinite(a) THEN IntIndefinite
    ELSE LET q == a \div Scale
             r == a % Scale
         IN  IF 2 * r > Scale THEN q + 1
             ELSE IF 2 * r < Scale THEN q
             ELSE IF q % 2 = 0 THEN q ELSE q + 1

Min(a, b) == IF a < b THEN a ELSE b

\* the densities the fixed-point product density * scale has room for
InFixedRange(density, scale) ==
    scale = 0 \/ Abs(density) <= (IntMax \div Scale) \div scale

\* _mm256_cvtps_epi32 of a product that is too large for fixed point: the
\* "integer indefinite" value once the product reaches 2^31, the product
\* itself (which is far above 255) below that.  The product is compared
\* with 2^31 to within one part in a thousand.
RoundLargeToInt(density, scale) ==
    IF Abs(density) \div Scale > IntMax \div scale
        THEN IntIndefinite
    ELSE Sign(density) * (IntMax \div Scale)

\* min(cvtps_epi32(cvtepi32_ps(density) * (255.0f / maxDensity)), 255)
Brightness(density, maxDensity) ==
    LET scale == FDiv(IntToFloat(255), IntToFloat(maxDensity))
    IN  IF InFixedRange(density, scale)
        THEN Min(RoundToInt(FMul(IntToFloat(density), scale)), 255)
        ELSE Min(RoundLargeToInt(density, scale), 255)

\* byte n of the 32-bit value v
Byte(v, n) ==
    IF n = 0 THEN v % 256
    ELSE IF n = 1 THEN (v \div 256) % 256
    ELSE (v \div (256 * 256)) % 256

\* r | g << 8 | b << 16 | a << 24 with r = g = b = v and a = 255, read back
\* as the four bytes of a Color: bits shifted beyond bit 31 are lost, and
\* the higher bytes of v are ORed into the next colour
GrayPixel(v) ==
    [r |-> Byte(v, 0),
     g |-> BitOr(Byte(v, 1), Byte(v, 0)),
     b |-> BitOr(BitOr(Byte(v, 2), Byte(v, 1)), Byte(v, 0)),
     a |-> 255]

RECURSIVE ApplyDensityToPixelsSIMD(_, _, _, _, _)
ApplyDensityToPixelsSIMD(densityBuffer, px, i, bufferSize, maxDensity) ==
    IF i >= bufferSize THEN px
    ELSE ApplyDensityToPixelsSIMD(
             densityBuffer,
             [j \in DOMAIN px |->
                 IF j \in Block(i)
                 THEN GrayPixel(Brightness(densityBuffer[j], maxDensity))
                 ELSE px[j]],
             i + LaneWidth, bufferSize, maxDensity)

\* with pixels NULL the first _mm256_storeu_si256 is an access violation
ApplyDensity ==
    /\ pc = "apply"
    /\ pixels' = ApplyDensityToPixelsSIMD(buffer.A, pixels, 0,
                                          ScreenWidth * ScreenHeight, MaxDensity)
    /\ pc' = IF "pixels" \in failed THEN "crashed" ELSE "draw"
    /\ UNCHANGED <<elsewhere, config, failed, idx, frame, mousePos,
                   particleArrays, args, kin, den, buffer, history,
                   arraysFreed>>

\* UpdateTexture ... EndDrawing: the frame is handed to the renderer
Draw ==
    /\ pc = "draw"
    /\ pc' = "loop"
    /\ UNCHANGED <<elsewhere, config, failed, idx, frame, mousePos,
                   particleArrays, args, kin, den, buffer, pixels, history,
                   arraysFreed>>

\* faulty variant of Shutdown: the teardown may start while the kinematics
\* work items are being joined
ShutdownMidFrame ==
    /\ pc \in {"loop", "kin_wait"}
    /\ arraysFreed' = arraysFreed + 1
    /\ pc' = "exited"
    /\ UNCHANGED <<elsewhere, config, failed, idx, frame, mousePos,
                   particleArrays, args, kin, den, buffer, pixels, history>>

\* WindowShouldClose() is true: FreeParticles and the rest of the teardown
Shutdown ==
    /\ pc = "loop"
    /\ arraysFreed' = arraysFreed + 1
    /\ pc' = "exited"
    /\ UNCHANGED <<elsewhere, config, failed, idx, frame, mousePos,
                   particleArrays, args, kin, den, buffer, pixels, history>>

(***************************************************************************)
(* UpdateParticlesWorkCallback on a pool thread, for workItems[i].         *)
(***************************************************************************)
\* the callback starts: int i = args->start
KinStart(i) ==
    /\ pc \notin {"crashed", "exited", "aborted"}
    /\ kin[i].st = "submitted"
    /\ ThreadFree
    /\ kin' = [kin EXCEPT ![i] = [@ EXCEPT !.st = "running",
                                            !.it = args[kin[i].ctx].start]]
    /\ UNCHANGED <<elsewhere, config, failed, pc, idx, frame, mousePos,
                   particleArrays, args, den, buffer, pixels, history,
                   arraysFreed>>

\* the loop condition i + 7 < args->end
KinLoopCond(i) == kin[i].it + 7 < args[kin[i].ctx].end

\* _mm256_load_ps / _mm256_store_ps need a 32-byte aligned address: the
\* arrays are 32-byte aligned, so element it must be a multiple of 8
Aligned(it) == it % LaneWidth = 0

\* one iteration of the loop: 8 lanes loaded, updated and stored
KinBlock(i) ==
    /\ pc \notin {"crashed", "exited", "aborted"}
    /\ kin[i].st = "running"
    /\ KinLoopCond(i)
    /\ LET lanes == Block(kin[i].it)
           new == [k \in lanes |-> KernelLane(k, args[kin[i].ctx].mousePos)]
       IN  /\ posX' = [k \in DOMAIN posX |-> IF k \in lanes THEN new[k].posX ELSE posX[k]]
           /\ posY' = [k \in DOMAIN posY |-> IF k \in lanes THEN new[k].posY ELSE posY[k]]
           /\ velX' = [k \in DOMAIN velX |-> IF k \in lanes THEN new[k].velX ELSE velX[k]]
           /\ velY' = [k \in DOMAIN velY |-> IF k \in lanes THEN new[k].velY ELSE velY[k]]
           /\ updated' = [k \in DOMAIN updated |->
                             IF k \in lanes THEN updated[k] + 1 ELSE updated[k]]
    /\ kin' = [kin EXCEPT ![i] = [@ EXCEPT !.it = @ + LaneWidth]]
    /\ UNCHANGED <<elsewhere, config, failed, pc, idx, frame, mousePos, args,
                   den, buffer, pixels, denWrites, doneOrder, nullWork,
                   arraysFreed>>

\* an aligned load or store at a misaligned address may raise a general
\* protection fault (vmovaps), which ends the process; a build that emits
\* unaligned moves carries on with KinBlock
KinFault(i) ==
    /\ pc \notin {"crashed", "exited", "aborted"}
    /\ kin[i].st = "running"
    /\ KinLoopCond(i)
    /\ ~Aligned(kin[i].it)
    /\ pc' = "crashed"
    /\ UNCHANGED <<elsewhere, config, failed, idx, frame, mousePos,
                   particleArrays, args, kin, den, buffer, pixels, history,
                   arraysFreed>>

\* the loop ends and the callback returns
KinFinish(i) ==
    /\ pc \notin {"crashed", "exited", "aborted"}
    /\ kin[i].st = "running"
    /\ ~KinLoopCond(i)
    /\ kin' = [kin EXCEPT ![i] = [@ EXCEPT !.st = "done"]]
    /\ UNCHANGED <<elsewhere, config, failed, pc, idx, frame, mousePos,
                   particleArrays, args, den, buffer, pixels, history,
                   arraysFreed>>

(***************************************************************************)
(* UpdateBufferWorkCallback on a pool thread, for workItemA / workItemB:   *)
(* UpdateBufferWithParticleDensity(buffer, particles, start, end,          *)
(* bufferWidth, bufferHeight).                                             *)
(***************************************************************************)
\* the particle's integer position
CellX(k) == FloatToInt(posX[k])
CellY(k) == FloatToInt(posY[k])

\* faulty variant of InBuffer: the last row bound is inclusive
InBufferInclusive(x, y, bufferWidth, bufferHeight) ==
    x >= 0 /\ x < bufferWidth /\ y >= 0 /\ y <= bufferHeight

\* if (x >= 0 && x < bufferWidth && y >= 0 && y < bufferHeight)
InBuffer(x, y, bufferWidth, bufferHeight) ==
    x >= 0 /\ x < bufferWidth /\ y >= 0 /\ y < bufferHeight

\* int index = y * bufferWidth + x
CellIndex(x, y, bufferWidth) == y * bufferWidth + x

\* faulty variant of ClearBuffer: the buffer is not cleared
ClearBufferLeftOut(buf, bufferWidth, bufferHeight) == buf

\* memset(buffer, 0, bufferWidth * bufferHeight * sizeof(int))
ClearBuffer(buf, bufferWidth, bufferHeight) ==
    [c \in DOMAIN buf |-> IF c < bufferWidth * bufferHeight THEN 0 ELSE buf[c]]

\* the loop for (int i = start; i < end; i++); a store outside the array
\* is not represented in buf (it is recorded in denWrites)
RECURSIVE DensityLoop(_, _, _, _, _)
DensityLoop(buf, i, end, bufferWidth, bufferHeight) ==
    IF i >= end THEN buf
    ELSE LET x == CellX(i)
             y == CellY(i)
             index == CellIndex(x, y, bufferWidth)
         IN  IF InBuffer(x, y, bufferWidth, bufferHeight)
             THEN DensityLoop(IF index \in DOMAIN buf
                                 THEN [buf EXCEPT ![index] = @ + 1]
                                 ELSE buf,
                              i + 1, end, bufferWidth, bufferHeight)
             ELSE DensityLoop(buf, i + 1, end, bufferWidth, bufferHeight)

\* the indices the loop stores to
StoredIndices(start, end, bufferWidth, bufferHeight) ==
    {CellIndex(CellX(i), CellY(i), bufferWidth) :
        i \in {k \in start .. (end - 1) :
                 InBuffer(CellX(k), CellY(k), bufferWidth, bufferHeight)}}

\* the callback starts and clears its buffer; with the buffer NULL the
\* memset is an access violation
DenStart(b) ==
    /\ pc \notin {"crashed", "exited", "aborted"}
    /\ den[b].st = "submitted"
    /\ ThreadFree
    /\ LET ctx == UpdateContext(ContextName(den[b].ctx))
       IN  IF BufferResource(ctx.buffer) \in failed
           THEN pc' = "crashed" /\ UNCHANGED <<buffer, den>>
           ELSE /\ buffer' = [buffer EXCEPT ![ctx.buffer] =
                                 ClearBuffer(@, ctx.bufferWidth, ctx.bufferHeight)]
                /\ den' = [den EXCEPT ![b] = [@ EXCEPT !.st = "running"]]
                /\ pc' = pc
    /\ UNCHANGED <<elsewhere, config, failed, idx, frame, mousePos,
                   particleArrays, args, kin, pixels, history, arraysFreed>>

\* the callback counts its particles and returns
DenFinish(b) ==
    /\ pc \notin {"crashed", "exited", "aborted"}
    /\ den[b].st = "running"
    /\ LET ctx == UpdateContext(ContextName(den[b].ctx))
       IN  /\ buffer' = [buffer EXCEPT ![ctx.buffer] =
                            DensityLoop(@, ctx.start, ctx.end,
                                        ctx.bufferWidth, ctx.bufferHeight)]
           /\ denWrites' = [denWrites EXCEPT ![b] =
                               StoredIndices(ctx.start, ctx.end,
                                             ctx.bufferWidth, ctx.bufferHeight)]
    /\ den' = [den EXCEPT ![b] = [@ EXCEPT !.st = "done"]]
    /\ doneOrder' = Append(doneOrder, b)
    /\ UNCHANGED <<elsewhere, config, failed, pc, idx, frame, mousePos,
                   particleArrays, args, kin, pixels, updated, nullWork,
                   arraysFreed>>

(***************************************************************************)
(* The specification.                                                      *)
(***************************************************************************)
Next ==
    \/ MainAssert
    \/ Startup
    \/ FrameBegin
    \/ KinSubmit
    \/ KinJoin
    \/ DenCreate
    \/ DenSubmitA
    \/ DenSubmitB
    \/ DenWaitA
    \/ DenWaitB
    \/ DenClose
    \/ Combine
    \/ ApplyDensity
    \/ Draw
    \/ Shutdown
    \/ \E i \in Slots : KinStart(i)
    \/ \E i \in Slots : KinBlock(i)
    \/ \E i \in Slots : KinFault(i)
    \/ \E i \in Slots : KinFinish(i)
    \/ \E b \in BufferNames : DenStart(b)
    \/ \E b \in BufferNames : DenFinish(b)

Spec == Init /\ [][Next]_vars

(***************************************************************************)
(* src/src/threadpool.c: SimpleThreadPool_Init, _Submit and _Destroy, and  *)
(* a caller that makes up to MaxCalls calls.  tpRes gives each of the      *)
(* structure, the pool (tp->pool) and the callback environment             *)
(* (tp->callBackEnviron) as "none" (never acquired), "live" or "released". *)
(* The caller's pointer tpHandle is "unset", "null" or "built"; it keeps   *)
(* its value when the structure is freed.                                  *)
(***************************************************************************)
\* the point at which SimpleThreadPool_Init gives up: malloc, CreateThreadpool
\* or SetThreadpoolThreadMinimum, or none of them
InitFailures == {"malloc", "pool", "minimum", "none"}

\* what Init has acquired when it gets to that point
AcquiredAt(failure) ==
    CASE failure = "malloc" -> {}
      [] failure = "pool" -> {"struct"}
      [] failure = "minimum" -> {"struct", "pool", "env"}
      [] failure = "none" -> {"struct", "pool", "env"}

\* faulty variant of ReleasedAt: the minimum-thread path forgets free(tp)
ReleasedAtLeaksStructure(failure) ==
    CASE failure = "malloc" -> {}
      [] failure = "pool" -> {"struct"}
      [] failure = "minimum" -> {"pool", "env"}
      [] failure = "none" -> {}

\* what the failure path releases before it returns NULL
ReleasedAt(failure) ==
    CASE failure = "malloc" -> {}
      [] failure = "pool" -> {"struct"}
      [] failure = "minimum" -> {"pool", "env", "struct"}
      [] failure = "none" -> {}

PoolRunning == tpCall.ret # "fault"

SimpleThreadPool_Init ==
    /\ PoolRunning
    /\ tpHandle = "unset"
    /\ \E failure \in InitFailures :
        /\ tpRes' = [r \in TpParts |->
                        IF r \in ReleasedAt(failure) THEN "released"
                        ELSE IF r \in AcquiredAt(failure) THEN "live"
                        ELSE "none"]
        /\ tpReleases' = [r \in TpParts |->
                             IF r \in ReleasedAt(failure) THEN 1 ELSE 0]
        /\ tpHandle' = IF failure = "none" THEN "built" ELSE "null"
        /\ tpCall' = [n |-> tpCall.n + 1, op |-> "init", arg |-> "none",
                      context |-> 0, created |-> "none",
                      ret |-> IF failure = "none" THEN "built" ELSE "null"]
    /\ UNCHANGED <<mainVars, combinerVars, loopVars, tpStale, tpWork>>

\* the tp arguments a caller passes to Submit: NULL, a structure whose pool
\* member is NULL (one it did not get from Init), or the one Init built,
\* as long as it has not destroyed it
SubmitArgs ==
    {"null", "unbuilt"}
    \cup (IF tpHandle = "built" /\ tpRes["struct"] = "live" THEN {"built"} ELSE {})

\* the context pointers of the model
Contexts == {1, 2}

\* tp->pool
PoolMember(tp) == IF tp = "built" THEN "pool" ELSE "null"

\* faulty variant of SubmitRejects: the pool member is not tested
SubmitRejectsOnlyNull(tp) == tp = "null"

\* if (!tp || !tp->pool) return FALSE
SubmitRejects(tp) == tp = "null" \/ PoolMember(tp) = "null"

\* CreateThreadpoolWork may return NULL; SubmitThreadpoolWork only queues
\* the item and returns
SimpleThreadPool_Submit(tp, context) ==
    /\ PoolRunning
    /\ tpCall.n < MaxCalls
    /\ tp \in SubmitArgs
    /\ \E created \in BOOLEAN :
        IF SubmitRejects(tp)
        THEN /\ tpWork' = tpWork
             /\ tpCall' = [n |-> tpCall.n + 1, op |-> "submit", arg |-> tp,
                           context |-> context, created |-> "none",
                           ret |-> "FALSE"]
        ELSE IF created
        THEN /\ tpWork' = Append(tpWork, [st |-> "submitted", context |-> context])
             /\ tpCall' = [n |-> tpCall.n + 1, op |-> "submit", arg |-> tp,
                           context |-> context, created |-> "yes",
                           ret |-> "TRUE"]
        ELSE /\ tpWork' = tpWork
             /\ tpCall' = [n |-> tpCall.n + 1, op |-> "submit", arg |-> tp,
                           context |-> context, created |-> "no",
                           ret |-> "FALSE"]
    /\ UNCHANGED <<mainVars, combinerVars, loopVars, tpRes, tpReleases, tpStale, tpHandle>>

\* the tp arguments a caller passes to Destroy: NULL or the pointer Init
\* gave it, which it may pass again after the structure is freed
DestroyArgs == {"null"} \cup (IF tpHandle = "built" THEN {"built"} ELSE {})

\* CloseThreadpool, DestroyThreadpoolEnvironment and free follow the NULL
\* test at once: nothing waits for the work items.  A second call on the
\* same pointer passes the NULL test, reads tp->pool from freed memory and
\* releases all three again: the behaviour is undefined, the process either
\* faults or carries on with each release made twice
SimpleThreadPool_Destroy(tp) ==
    /\ PoolRunning
    /\ tpCall.n < MaxCalls
    /\ tp \in DestroyArgs
    /\ IF tp = "null"
       THEN /\ tpCall' = [n |-> tpCall.n + 1, op |-> "destroy", arg |-> tp,
                          context |-> 0, created |-> "none", ret |-> "void"]
            /\ UNCHANGED <<tpRes, tpReleases, tpStale>>
       ELSE IF tpRes["struct"] = "live"
       THEN /\ tpRes' = [r \in TpParts |-> "released"]
            /\ tpReleases' = [r \in TpParts |-> tpReleases[r] + 1]
            /\ tpCall' = [n |-> tpCall.n + 1, op |-> "destroy", arg |-> tp,
                          context |-> 0, created |-> "none", ret |-> "void"]
            /\ UNCHANGED tpStale
       ELSE /\ tpStale' = tpStale + 1
            /\ \E faults \in BOOLEAN :
                /\ tpReleases' = IF faults THEN tpReleases
                                 ELSE [r \in TpParts |-> tpReleases[r] + 1]
                /\ tpCall' = [n |-> tpCall.n + 1, op |-> "destroy", arg |-> tp,
                              context |-> 0, created |-> "none",
                              ret |-> IF faults THEN "fault" ELSE "void"]
            /\ UNCHANGED tpRes
    /\ UNCHANGED <<mainVars, combinerVars, loopVars, tpHandle, tpWork>>

\* a pool thread picks up a queued work item; a pool closed with work
\* outstanding goes on running it
TpWorkStart(k) ==
    /\ PoolRunning
    /\ tpWork[k].st = "submitted"
    /\ tpWork' = [tpWork EXCEPT ![k] = [@ EXCEPT !.st = "running"]]
    /\ UNCHANGED <<mainVars, combinerVars, loopVars, tpRes, tpReleases, tpStale, tpHandle,
                   tpCall>>

\* the callback returns
TpWorkFinish(k) ==
    /\ PoolRunning
    /\ tpWork[k].st = "running"
    /\ tpWork' = [tpWork EXCEPT ![k] = [@ EXCEPT !.st = "done"]]
    /\ UNCHANGED <<mainVars, combinerVars, loopVars, tpRes, tpReleases, tpStale, tpHandle,
                   tpCall>>

PoolInit == MainUnused /\ PoolUnused /\ CombinerUnused /\ LoopUnused

PoolNext ==
    \/ SimpleThreadPool_Init
    \/ \E tp \in {"null", "unbuilt", "built"} : \E c \in Contexts :
          SimpleThreadPool_Submit(tp, c)
    \/ \E tp \in {"null", "built"} : SimpleThreadPool_Destroy(tp)
    \/ \E k \in DOMAIN tpWork : TpWorkStart(k)
    \/ \E k \in DOMAIN tpWork : TpWorkFinish(k)

PoolSpec == PoolInit /\ [][PoolNext]_vars

(***************************************************************************)
(* The two combiners as functions of their arguments:                      *)
(* CombineDensityBuffers (integer addition) and                            *)
(* CombineBuffersAndConvertToPixelsSIMD (bitwise OR, presence mode),       *)
(* called on buffers drawn from CombinerInputs.  cmem holds three buffers  *)
(* of CombinerSize ints; A and B are the inputs, the output is the first   *)
(* input or C.                                                             *)
(***************************************************************************)
\* two blocks of 8 elements
CombinerSize == 2 * LaneWidth
CombinerCells == 0 .. (CombinerSize - 1)

\* the values an element takes in the buffers the calls start from
CellValues == {0, 1, -1, IntMax}

\* the buffers the calls start from: the first element of each block is
\* chosen freely, all the others share one value
CombinerInputs ==
    {[c \in CombinerCells |->
         IF c = 0 THEN v[1] ELSE IF c = LaneWidth THEN v[2] ELSE v[3]] :
     v \in CellValues \X CellValues \X {0, 1}}

\* packedTrueColor (black) and packedFalseColor (gray); PackColor puts r,
\* g, b, a into the four bytes the Color in pixels[] is read from
TrueColor == [r |-> 0, g |-> 0, b |-> 0, a |-> 255]
FalseColor == [r |-> 130, g |-> 130, b |-> 130, a |-> 255]

\* _mm256_cmpeq_epi32 with zero and _mm256_blendv_epi8, one lane: the
\* false colour where the combined element is 0, the true colour elsewhere
PresencePixel(combined) == IF combined = 0 THEN FalseColor ELSE TrueColor

\* the loop for (int i = 0; i <= bufferSize - 8; i += 8)
RECURSIVE CombineBuffersAndConvertToPixelsSIMD(_, _, _, _, _)
CombineBuffersAndConvertToPixelsSIMD(bufferA, bufferB, px, i, bufferSize) ==
    IF ~(i <= bufferSize - LaneWidth) THEN px
    ELSE CombineBuffersAndConvertToPixelsSIMD(
             bufferA, bufferB,
             [j \in DOMAIN px |->
                 IF j \in Block(i)
                 THEN PresencePixel(BitOr(bufferA[j], bufferB[j]))
                 ELSE px[j]],
             i + LaneWidth, bufferSize)

CombinerInit ==
    /\ MainUnused
    /\ PoolUnused
    /\ LoopUnused
    /\ \E a \in CombinerInputs : \E b \in CombinerInputs :
          cmem = [A |-> a, B |-> b, C |-> [c \in CombinerCells |-> 0]]
    /\ cpixels = [c \in CombinerCells |-> UnwrittenPixel]
    /\ combines = 0

\* CombineDensityBuffers(a, b, out, bufferSize)
CombineCall(a, b, out) ==
    /\ combines < MaxCombines
    /\ cmem' = CombineDensityBuffers(cmem, a, b, out, 0, CombinerSize)
    /\ combines' = combines + 1
    /\ UNCHANGED <<mainVars, poolVars, loopVars, cpixels>>

\* CombineBuffersAndConvertToPixelsSIMD(a, b, pixels, bufferSize)
PresenceCall(a, b) ==
    /\ combines < MaxCombines
    /\ cpixels' = CombineBuffersAndConvertToPixelsSIMD(cmem[a], cmem[b], cpixels,
                                                       0, CombinerSize)
    /\ combines' = combines + 1
    /\ UNCHANGED <<mainVars, poolVars, loopVars, cmem>>

CombinerNext ==
    \/ \E a \in {"A", "B"} : \E b \in {"A", "B"} \ {a} : \E out \in {a, "C"} :
          CombineCall(a, b, out)
    \/ \E a \in {"A", "B"} : \E b \in {"A", "B"} \ {a} : PresenceCall(a, b)

CombinerSpec == CombinerInit /\ [][CombinerNext]_vars

(***************************************************************************)
(* The two whole-buffer loops as functions: CombineDensityBuffers and      *)
(* ApplyDensityToPixelsSIMD called with any bufferSize and maxDensity, on  *)
(* buffers of exactly bufferSize elements.  lmem.A holds consecutive       *)
(* counts from a drawn base, lmem.B holds ones.                            *)
(***************************************************************************)
\* the maxDensity values passed: small ones, and the one main passes
DensityArgs == (1 .. MaxDensityArg) \cup {MaxDensity}

\* the count of element 0: small counts, a count whose product with the
\* scale is beyond fixed point, and a count whose product is beyond int
CountBases == (0 .. MaxBase) \cup {IntMax \div (Scale * Scale), IntMax \div 2}

\* the values i takes in for (int i = 0; i < bufferSize; i += 8)
LoopStarts(bufferSize) == {i \in 0 .. (bufferSize - 1) : i % LaneWidth = 0}

\* the element indices the 8-wide loads and stores of the loop access, and
\* the number of iterations that access each
Touched(bufferSize) ==
    LET starts == LoopStarts(bufferSize)
    IN  [j \in UNION {Block(i) : i \in starts} |->
            Cardinality({i \in starts : j \in Block(i)})]

\* the call accesses an element that is not in the buffers
OutOfBounds(bufferSize) ==
    \E j \in DOMAIN Touched(bufferSize) : j \notin 0 .. (lsize - 1)

LoopInit ==
    /\ MainUnused
    /\ PoolUnused
    /\ CombinerUnused
    /\ lsize \in 0 .. MaxBufferSize
    /\ lmax \in DensityArgs
    /\ \E base \in CountBases :
          lmem = [A |-> [c \in 0 .. (lsize - 1) |-> base + c],
                  B |-> [c \in 0 .. (lsize - 1) |-> 1]]
    /\ lpixels = [c \in 0 .. (lsize - 1) |-> UnwrittenPixel]
    /\ ltouched = <<>>
    /\ lcall = "none"

\* CombineDensityBuffers(A, B, A, bufferSize).  An access outside the
\* buffers is undefined: the call faults, or it goes on and the elements
\* inside the buffers get what the loop computes for them.
LoopCombine ==
    /\ lcall = "none"
    /\ ltouched' = Touched(lsize)
    /\ \E fault \in {f \in BOOLEAN : f => OutOfBounds(lsize)} :
          IF fault
          THEN lcall' = "fault" /\ UNCHANGED lmem
          ELSE /\ lcall' = "combine"
               /\ lmem' = CombineDensityBuffers(lmem, "A", "B", "A", 0, lsize)
    /\ UNCHANGED <<mainVars, poolVars, combinerVars, lsize, lmax, lpixels>>

\* ApplyDensityToPixelsSIMD(A, pixels, bufferSize, maxDensity), with the
\* same outcomes of an access outside the buffers
LoopApply ==
    /\ lcall \in {"none", "combine"}
    /\ ltouched' = Touched(lsize)
    /\ \E fault \in {f \in BOOLEAN : f => OutOfBounds(lsize)} :
          IF fault
          THEN lcall' = "fault" /\ UNCHANGED lpixels
          ELSE /\ lcall' = "apply"
               /\ lpixels' = ApplyDensityToPixelsSIMD(lmem.A, lpixels, 0, lsize,
                                                      lmax)
    /\ UNCHANGED <<mainVars, poolVars, combinerVars, lsize, lmax, lmem>>

LoopNext == LoopCombine \/ LoopApply

LoopSpec == LoopInit /\ [][LoopNext]_vars

(***************************************************************************)
(* Notions the properties are stated in.                                   *)
(***************************************************************************)
\* the index range [start, end)
Range(start, end) == start .. (end - 1)

\* every work item of the model
AllItems == {kin[i] : i \in Slots} \cup {den[b] : b \in BufferNames}

\* an item that exists no more: its callback returned, it was closed once
Retired(item) == item.st = "none" \/ (item.st = "done" /\ item.closes = 1)

\* the elements the kinematics callback of slot i stores to: the 8-wide
\* blocks from args[i].start on that end before args[i].end
KinStores(i) ==
    {k \in Range(args[i].start, args[i].end) :
        (k - args[i].start) \div LaneWidth
            < (args[i].end - args[i].start) \div LaneWidth}

\* the memory elements an outstanding work item writes
KinWriteSet(i) == {<<"particles", k>> : k \in KinStores(i)}
DenWriteSet(b) == {<<UpdateContext(b).buffer, c>> : c \in Cells}

\* the particle's position lies on the screen
PositionOnScreen(k) ==
    /\ IsFinite(posX[k]) /\ IsFinite(posY[k])
    /\ 0 <= posX[k] /\ posX[k] < IntToFloat(ScreenWidth)
    /\ 0 <= posY[k] /\ posY[k] < IntToFloat(ScreenHeight)

\* the particle's integer position (x, y) = ((int)posX, (int)posY) lies on
\* the screen
IntegerPositionOnScreen(k) ==
    LET x == FloatToInt(posX[k])
        y == FloatToInt(posY[k])
    IN  0 <= x /\ x < ScreenWidth /\ 0 <= y /\ y < ScreenHeight

\* the cell y * width + x of the particle's integer position
CellOf(k) == FloatToInt(posY[k]) * ScreenWidth + FloatToInt(posX[k])

\* the particles of [start, end) whose integer position is cell c
ParticlesAt(c, start, end) ==
    {k \in Range(start, end) : IntegerPositionOnScreen(k) /\ CellOf(k) = c}

RECURSIVE SumUpTo(_, _)
SumUpTo(buf, n) == IF n < 0 THEN 0 ELSE buf[n] + SumUpTo(buf, n - 1)

\* the sum over all cells of a buffer
SumCells(buf) == SumUpTo(buf, ScreenWidth * ScreenHeight - 1)

\* the main thread is between the density submissions and the combiner
DensityPhase == pc \in {"den_submitB", "den_waitA", "den_waitB", "den_close", "combine"}

\* the main thread is past UpdateParticlesMultithreaded in the current frame
PastKinematics ==
    pc \in {"den_create", "den_submitA", "den_submitB", "den_waitA",
            "den_waitB", "den_close", "combine", "apply", "draw"}

(***************************************************************************)
(* C1: once UpdateParticlesMultithreaded has handed out its chunks, worker *)
(* i has [i*chunkSize, (i+1)*chunkSize) with chunkSize = floor(count /     *)
(* workerCount), the last worker's range ends at count, and the ranges     *)
(* cover exactly [0, count).  (The code ends the last range at             *)
(* workerCount * chunkSize.)                                               *)
(***************************************************************************)
C1_ChunksCoverAllParticles ==
    pc = "kin_wait" =>
        LET chunkSize == count \div threadCount
        IN  /\ \A i \in Slots : args[i].start = i * chunkSize
            /\ \A i \in Slots \ {threadCount - 1} :
                   args[i].end = (i + 1) * chunkSize
            /\ args[threadCount - 1].end = count
            /\ UNION {Range(args[i].start, args[i].end) : i \in Slots} = Indices

(***************************************************************************)
(* C2: no two work items that are outstanding at the same time write the   *)
(* same memory element: kinematics callbacks write pairwise disjoint       *)
(* index ranges of the particle arrays, the two density writers write two  *)
(* different buffers, and a kinematics callback and a density writer       *)
(* share no element.                                                       *)
(***************************************************************************)
C2_ConcurrentWritesDisjoint ==
    /\ \A i, j \in Slots :
          (i # j /\ Outstanding(kin[i]) /\ Outstanding(kin[j]))
              => KinWriteSet(i) \cap KinWriteSet(j) = {}
    /\ \A a, b \in BufferNames :
          (a # b /\ Outstanding(den[a]) /\ Outstanding(den[b]))
              => DenWriteSet(a) \cap DenWriteSet(b) = {}
    /\ \A i \in Slots : \A b \in BufferNames :
          (Outstanding(kin[i]) /\ Outstanding(den[b]))
              => KinWriteSet(i) \cap DenWriteSet(b) = {}

\* two kinematics callbacks run at once, each with particles to store
C2_Witness ==
    \E i, j \in Slots :
        /\ i # j
        /\ kin[i].st = "running" /\ kin[j].st = "running"
        /\ KinStores(i) # {} /\ KinStores(j) # {}

(***************************************************************************)
(* C3: no density-writer callback is pending or running before every       *)
(* kinematics callback submitted in the frame has completed, and           *)
(* UpdateParticlesMultithreaded returns only after all the work items it   *)
(* submitted have finished.                                                *)
(***************************************************************************)
C3_KinematicsJoinedBeforeDensity ==
    /\ (\E b \in BufferNames : Outstanding(den[b]))
           => \A i \in Slots : kin[i].st = "done"
    /\ PastKinematics => \A i \in Slots : kin[i].st = "done"

\* a density writer runs in a frame whose kinematics moved particles
C3_Witness ==
    /\ den["A"].st = "running"
    /\ \E k \in Indices : updated[k] = 1

(***************************************************************************)
(* C4: CombineDensityBuffers and ApplyDensityToPixelsSIMD run only after   *)
(* both density-writer work items of the frame have completed, whatever    *)
(* the order in which the two finish.                                      *)
(***************************************************************************)
C4_CombinerAfterBothWriters ==
    pc \in {"combine", "apply", "draw"} =>
        /\ \A b \in BufferNames : den[b].st = "done"
        /\ Len(doneOrder) = 2

\* the combiner has run in a frame in which B finished before A
C4_Witness == pc = "apply" /\ doneOrder = <<"B", "A">>

(***************************************************************************)
(* C5: when the kinematics jobs of a frame are submitted, no work item of  *)
(* an earlier frame is pending, running or open; every work item is closed *)
(* at most once, only after its callback completed, and before its frame   *)
(* ends.                                                                   *)
(***************************************************************************)
C5_NoWorkAcrossFrames ==
    /\ \A item \in AllItems :
          item.closes <= 1 /\ (item.closes = 1 => item.st = "done")
    /\ pc = "loop" => \A item \in AllItems : Retired(item)
    /\ pc = "kin_submit" =>
          /\ \A i \in Slots : i >= idx => Retired(kin[i])
          /\ \A b \in BufferNames : Retired(den[b])

\* the second frame is about to submit its first kinematics job while the
\* work items of the first frame are still on record
C5_Witness ==
    /\ pc = "kin_submit" /\ idx = 0 /\ frame = 2
    /\ \A item \in AllItems : item.st = "done"

(***************************************************************************)
(* C6: one invocation of UpdateParticlesWorkCallback applies the update    *)
(* exactly once to every particle of its chunk [start, end), the trailing  *)
(* (end - start) mod 8 particles included.  (The code has no loop for the  *)
(* trailing particles.)                                                    *)
(***************************************************************************)
C6_WholeChunkUpdatedOnce ==
    pc = "den_create" =>
        \A i \in Slots : \A k \in Range(args[i].start, args[i].end) :
            updated[k] = 1

(***************************************************************************)
(* C7, as stated: whenever count is a multiple of 8 and workerCount        *)
(* divides count, every chunk's start and length are multiples of 8.       *)
(***************************************************************************)
ChunksLaneAligned ==
    /\ \A i \in Slots :
          kin[i].st # "none" =>
              /\ args[i].start % LaneWidth = 0
              /\ (args[i].end - args[i].start) % LaneWidth = 0
    /\ \A i \in Slots :
          (kin[i].st = "running" /\ KinLoopCond(i)) => Aligned(kin[i].it)

C7_Original ==
    (count % LaneWidth = 0 /\ count % threadCount = 0) => ChunksLaneAligned

(***************************************************************************)
(* C7, amended: whenever workerCount divides count and the chunk size      *)
(* count / workerCount is itself a multiple of 8, every chunk's start and  *)
(* length are multiples of 8, and every 8-wide load and store of the       *)
(* kernel starts at an index that is a multiple of 8.                      *)
(***************************************************************************)
C7_AlignedWhenChunkSizeIsMultipleOfLane ==
    (count % threadCount = 0 /\ (count \div threadCount) % LaneWidth = 0)
        => ChunksLaneAligned

\* the second of two workers is about to load lanes 8..15
C7_Witness ==
    /\ count = 16 /\ threadCount = 2
    /\ kin[1].st = "running" /\ kin[1].it = 8 /\ KinLoopCond(1)

(***************************************************************************)
(* C8, as stated: after the combiner, the sum over all cells of the        *)
(* combined buffer equals the number of particles whose position lies      *)
(* within [0, width) x [0, height).                                        *)
(***************************************************************************)
C8_Original ==
    pc = "apply" =>
        SumCells(buffer["A"]) = Cardinality({k \in Indices : PositionOnScreen(k)})

(***************************************************************************)
(* C8, amended: after the combiner, the sum over all cells of the combined *)
(* buffer equals the number of particles whose integer position            *)
(* ((int)posX, (int)posY), truncated toward zero, lies within              *)
(* [0, width) x [0, height); no particle is counted twice or dropped at    *)
(* the boundary between the two sub-ranges.                                *)
(***************************************************************************)
C8_DensityConservation ==
    pc = "apply" =>
        /\ SumCells(buffer["A"])
               = Cardinality({k \in Indices : IntegerPositionOnScreen(k)})
        /\ \A c \in Cells :
               buffer["A"][c] = Cardinality(ParticlesAt(c, 0, count))

\* the combiner has run with counted particles on both sides of the
\* boundary N/2 and with a particle that is off the screen
C8_Witness ==
    /\ pc = "apply"
    /\ count > 0
    /\ IntegerPositionOnScreen(count \div 2 - 1)
    /\ IntegerPositionOnScreen(count \div 2)
    /\ \E k \in Indices : ~IntegerPositionOnScreen(k)
    /\ \E k \in Indices : updated[k] = 1

(***************************************************************************)
(* C9: a density buffer is written only by the density-writer job that     *)
(* owns it (and bufferA by the combiner, which stores the sum in it); the  *)
(* writer zeroes the buffer before any increment, and after the density    *)
(* phase each buffer holds the counts of its own particle sub-range only,  *)
(* whatever an earlier frame (or the combiner) left in it.                 *)
(***************************************************************************)
\* this step is a step of the density-writer callback of buffer b
WriterStep(b) == den'[b].st # den[b].st /\ den'[b].st \in {"running", "done"}

\* this step is the combiner storing into bufferA
CombinerStep == pc = "combine" /\ pc' = "apply"

BufferRebuilt ==
    \A b \in BufferNames :
        /\ den[b].st = "running" => buffer[b] = ZeroBuffer
        /\ (DensityPhase /\ den[b].st = "done") =>
               \A c \in Cells :
                   buffer[b][c] = Cardinality(ParticlesAt(c, UpdateContext(b).start,
                                                          UpdateContext(b).end))

C9_BufferRebuiltEveryFrame ==
    /\ []BufferRebuilt
    /\ [][pc # "startup" =>
            /\ buffer'["A"] # buffer["A"] => (WriterStep("A") \/ CombinerStep)
            /\ buffer'["B"] # buffer["B"] => WriterStep("B")]_vars

\* the density phase of the second frame is complete, and the combiner of
\* the first frame had left a particle of the other sub-range in bufferA
C9_Witness ==
    /\ pc = "den_close" /\ frame = 2
    /\ \E c \in Cells :
          /\ buffer["A"][c] = 0
          /\ buffer["B"][c] > 0

(***************************************************************************)
(* C10: the loop of UpdateBufferWithParticleDensity increments, for every  *)
(* particle of its range whose integer position (x, y) is on the screen,   *)
(* exactly the cell y*width + x, and writes no cell for any other          *)
(* particle; every index it writes lies in [0, width*height).              *)
(***************************************************************************)
DensityLoopEffect(b) ==
    /\ \A c \in Cells :
          buffer'[b][c] - buffer[b][c]
              = Cardinality(ParticlesAt(c, UpdateContext(b).start,
                                        UpdateContext(b).end))
    /\ denWrites'[b] \subseteq Cells
    /\ denWrites'[b] = {CellOf(k) :
                          k \in {j \in Range(UpdateContext(b).start,
                                            UpdateContext(b).end) :
                                   IntegerPositionOnScreen(j)}}

C10_OneCellPerOnScreenParticle ==
    [][\A b \in BufferNames :
          (den[b].st = "running" /\ den'[b].st = "done") => DensityLoopEffect(b)]_vars

\* a density writer has finished a range that holds a particle on the
\* screen, one below the screen and one whose position is not a number
C10_Witness ==
    \E b \in BufferNames :
        /\ den[b].st = "done" /\ pc = "den_waitB"
        /\ denWrites[b] # {}
        /\ \E k \in Range(UpdateContext(b).start, UpdateContext(b).end) :
              FloatToInt(posY[k]) >= ScreenHeight
        /\ \E k \in Range(UpdateContext(b).start, UpdateContext(b).end) :
              IsNaN(posX[k])

(***************************************************************************)
(* C11: SimpleThreadPool_Destroy on a pool with work items pending or      *)
(* running waits until all of them have completed before it releases the   *)
(* pool, the callback environment and the structure: whenever the          *)
(* structure is released, every work item enqueued on it has completed.    *)
(* (The code releases all three at once, without waiting.)                 *)
(***************************************************************************)
C11_DestroyWaitsForWork ==
    tpRes["struct"] = "released" =>
        \A k \in DOMAIN tpWork : tpWork[k].st = "done"

(***************************************************************************)
(* C12: SimpleThreadPool_Destroy is safe on NULL and on a pool that was    *)
(* destroyed before: a call with NULL changes nothing, no resource is      *)
(* released twice and no freed memory is accessed.  (The second call on    *)
(* the same pointer passes the NULL test and releases everything again.)   *)
(***************************************************************************)
C12_DestroyIdempotent ==
    /\ \A r \in TpParts : tpReleases[r] <= 1
    /\ tpStale = 0
    /\ (tpCall.op = "destroy" /\ tpCall.arg = "null") => tpCall.ret = "void"

(***************************************************************************)
(* C13: SimpleThreadPool_Init returns either NULL with everything it had   *)
(* acquired released, or a fully built pool with the structure, the pool   *)
(* and the callback environment all live; on no failure path does it       *)
(* return a partly built pool or leave an acquired resource unreleased.    *)
(***************************************************************************)
C13_InitAllOrNothing ==
    tpCall.op = "init" =>
        /\ tpCall.ret \in {"null", "built"}
        /\ tpCall.ret = "null" =>
               /\ \A r \in TpParts : tpRes[r] # "live"
               /\ \A r \in TpParts : tpReleases[r] = IF tpRes[r] = "released" THEN 1 ELSE 0
        /\ tpCall.ret = "built" =>
               /\ \A r \in TpParts : tpRes[r] = "live"
               /\ \A r \in TpParts : tpReleases[r] = 0

\* Init has failed at SetThreadpoolThreadMinimum, with all three acquired
C13_Witness ==
    /\ tpCall.op = "init" /\ tpCall.ret = "null"
    /\ tpRes["pool"] = "released" /\ tpRes["env"] = "released"

(***************************************************************************)
(* C14: when the creation of the thread pool, one of the four particle     *)
(* array allocations or a density buffer allocation fails at startup, the  *)
(* program does not enter the frame loop and submits no work item.  (main  *)
(* tests none of these results.)                                           *)
(***************************************************************************)
C14_StartupFailureStopsEngine ==
    failed \cap ({"pool", "bufferA", "bufferB"} \cup ArrayNames) # {} =>
        /\ frame = 0
        /\ \A item \in AllItems : item.st = "none"

(***************************************************************************)
(* C15: when the work item of a chunk cannot be created or submitted, the  *)
(* chunk is executed on the calling thread in the same frame: the process  *)
(* goes on, every particle of the chunk is updated exactly once by the end *)
(* of the kinematics phase, and the item that was never created is neither *)
(* waited for nor closed.  (The code passes the NULL work item on to       *)
(* SubmitThreadpoolWork.)                                                  *)
(***************************************************************************)
C15_SynchronousFallback ==
    /\ nullWork # {} => pc # "crashed"
    /\ \A i \in Slots : <<"kin", i>> \in nullWork =>
          /\ kin[i].closes = 0
          /\ PastKinematics =>
                \A k \in Range(ChunkStart(i), ChunkEnd(i)) : updated[k] = 1

\* this step is a call of SimpleThreadPool_Submit returning
SubmitStep == tpCall'.n # tpCall.n /\ tpCall'.op = "submit"

(***************************************************************************)
(* C16: SimpleThreadPool_Submit returns TRUE exactly when it has enqueued  *)
(* one work item for the given context, and FALSE, with nothing enqueued   *)
(* and the pool unchanged, when tp is NULL, tp->pool is NULL or the work   *)
(* item cannot be created; the call returns with the item still queued,    *)
(* and can be made whatever the state of the earlier work items.           *)
(***************************************************************************)
C16_SubmitReturnsTrueIffEnqueued ==
    /\ [][SubmitStep =>
            /\ tpCall'.ret \in {"TRUE", "FALSE"}
            /\ tpCall'.ret = "FALSE" <=>
                  \/ tpCall'.arg = "null"
                  \/ tpCall'.arg = "unbuilt"
                  \/ tpCall'.created = "no"
            /\ tpCall'.ret = "TRUE" =>
                  tpWork' = Append(tpWork, [st |-> "submitted",
                                            context |-> tpCall'.context])
            /\ tpCall'.ret = "FALSE" =>
                  /\ tpWork' = tpWork
                  /\ tpRes' = tpRes /\ tpReleases' = tpReleases
                  /\ tpHandle' = tpHandle]_vars
    /\ [](PoolRunning /\ tpCall.n < MaxCalls =>
            \A tp \in SubmitArgs : \A c \in Contexts :
                ENABLED SimpleThreadPool_Submit(tp, c))

\* Submit has returned TRUE while an earlier work item was still running
C16_Witness ==
    /\ tpCall.op = "submit" /\ tpCall.ret = "TRUE"
    /\ Len(tpWork) = 2
    /\ tpWork[1].st = "running" /\ tpWork[2].st = "submitted"

(***************************************************************************)
(* C17: the context object of a work item stays valid and unmodified from  *)
(* the item's submission until its callback has completed: a ThreadArgs    *)
(* slot is not written while its work item is pending or running, no two   *)
(* pending or running work items have the same slot, the array args[] is   *)
(* live as long as one of them is pending or running                       *)
(* (UpdateParticlesMultithreaded has not returned), and so are the two     *)
(* UpdateContext objects of main, which are never written after startup.   *)
(***************************************************************************)
C17_ContextsStableWhileInUse ==
    /\ [][\A i \in Slots : Outstanding(kin[i]) =>
              args'[kin[i].ctx] = args[kin[i].ctx]]_vars
    /\ [](\A i, j \in Slots :
              (i # j /\ Outstanding(kin[i]) /\ Outstanding(kin[j])) =>
                  kin[i].ctx # kin[j].ctx)
    /\ []((\E i \in Slots : Outstanding(kin[i])) =>
              pc \in {"kin_submit", "kin_wait", "crashed"})
    /\ []((\E b \in BufferNames : Outstanding(den[b])) =>
              /\ pc \in {"den_submitB", "den_waitA", "den_waitB", "crashed"}
              /\ \A b \in BufferNames :
                    Outstanding(den[b]) => den[b].ctx = ContextIndex(b))

\* the first loop is filling a later slot while an earlier work item runs
\* on a different slot
C17_Witness ==
    /\ pc = "kin_submit" /\ idx = 2
    /\ kin[0].st = "running" /\ kin[1].st = "submitted"
    /\ args[0] # args[1]

\* the particle array of that name
ArrayOf(name) ==
    CASE name = "posX" -> posX
      [] name = "posY" -> posY
      [] name = "velX" -> velX
      [] name = "velY" -> velY

(***************************************************************************)
(* C18: a particle count that is not a multiple of the lane width 8 is     *)
(* rejected before construction: with such a count the program stops at    *)
(* the assertion, no array is created, no frame starts and no work item    *)
(* exists; and an array that is created has exactly count elements, the    *)
(* count being neither truncated nor padded.                               *)
(***************************************************************************)
C18_OnlyLaneMultiplesConstructed ==
    /\ count % LaneWidth # 0 =>
          /\ pc \in {"assert", "aborted"}
          /\ \A name \in ArrayNames : ArrayOf(name) = <<>>
          /\ frame = 0
          /\ \A item \in AllItems : item.st = "none"
    /\ pc \notin {"assert", "aborted", "startup"} =>
          /\ count % LaneWidth = 0
          /\ \A name \in ArrayNames \ failed : DOMAIN ArrayOf(name) = 0 .. (count - 1)

\* a count that is not a multiple of 8 has been rejected
C18_Witness == pc = "aborted" /\ count % LaneWidth # 0 /\ count > LaneWidth

(***************************************************************************)
(* C19: FreeParticles releases the four arrays exactly once per created    *)
(* set, at a point where no work item is pending or running, and no        *)
(* callback runs or changes the arrays after it.                           *)
(***************************************************************************)
C19_ArraysFreedOnceAfterAllWork ==
    /\ [](arraysFreed <= 1)
    /\ [](arraysFreed = 1 <=> pc = "exited")
    /\ [](arraysFreed = 1 => \A item \in AllItems : Retired(item))
    /\ [][arraysFreed = 1 => UNCHANGED <<particleArrays, kin, den, buffer>>]_vars

\* the arrays have been released after two frames of simulation
C19_Witness ==
    /\ arraysFreed = 1 /\ frame = 2 /\ count > 0
    /\ \A i \in Slots : kin[i].st = "done"

(***************************************************************************)
(* C20: combining two buffers of equal size is commutative, cell by cell:  *)
(* CombineDensityBuffers gives the same buffer for (A, B) as for (B, A),   *)
(* also when the output is the first input as in                           *)
(* CombineDensityBuffers(bufferA, bufferB, bufferA), and the presence      *)
(* combiner gives the same pixels for (A, B) as for (B, A).                *)
(***************************************************************************)
C20_CombiningIsCommutative ==
    LET sum(a, b, out) ==
            CombineDensityBuffers(cmem, a, b, out, 0, CombinerSize)[out]
        presence(a, b) ==
            CombineBuffersAndConvertToPixelsSIMD(cmem[a], cmem[b], cpixels,
                                                 0, CombinerSize)
    IN  /\ sum("A", "B", "C") = sum("B", "A", "C")
        /\ sum("A", "B", "A") = sum("B", "A", "C")
        /\ sum("A", "B", "A") = sum("B", "A", "B")
        /\ \A c \in CombinerCells :
              sum("A", "B", "A")[c] = Add32(cmem["B"][c], cmem["A"][c])
        /\ presence("A", "B") = presence("B", "A")

\* bufferA has been combined in place with a different bufferB, a sum has
\* wrapped around, and the presence combiner has written both colours
C20_Witness ==
    /\ combines = 2
    /\ cmem["B"][0] = 1 /\ cmem["A"][0] = IntIndefinite
    /\ cmem["A"] # cmem["B"]
    /\ cpixels[0] = TrueColor
    /\ \E c \in CombinerCells : cpixels[c] = FalseColor


\* min(255, round(cnt * 255 / maxDensity)) of the exact ratio, as a set:
\* a ratio that lies exactly between two integers may round to either
RoundedBrightness(cnt, maxDensity) ==
    IF cnt >= maxDensity THEN {255}
    ELSE LET n == cnt * 255
             low == n \div maxDensity
             rest == n % maxDensity
         IN  IF 2 * rest < maxDensity THEN {low}
             ELSE IF 2 * rest > maxDensity THEN {low + 1}
             ELSE {low, low + 1}

\* the pixel of element c is the gray of a rounded brightness of its count
RoundedGray(c) ==
    \E v \in RoundedBrightness(lmem.A[c], lmax) :
        lpixels[c] = [r |-> v, g |-> v, b |-> v, a |-> 255]

\* the counts whose product with 255 / maxDensity is below 2^31, within
\* one part in a thousand
BelowIntOverflow(cnt, maxDensity) ==
    cnt \div Scale < (IntMax \div (255 * Scale)) * maxDensity

(***************************************************************************)
(* C21: for every cell count >= 0 and every maxDensity > 0,                *)
(* ApplyDensityToPixelsSIMD writes a pixel with R = G = B =                *)
(* min(255, round(count * 255 / maxDensity)) and A = 255 (so the           *)
(* brightness is non-decreasing in count, within 0..255, and 255 for every *)
(* count >= maxDensity).  Stated for every element of a buffer the call    *)
(* has processed within bounds; a count whose ratio is an exact half may   *)
(* round either way.  It fails for the counts whose product reaches 2^31.  *)
(***************************************************************************)
C21_PixelIsCappedRoundedRatio ==
    lcall = "apply" /\ ~OutOfBounds(lsize) =>
        \A c \in DOMAIN lpixels : lmem.A[c] >= 0 => RoundedGray(c)

\* what does hold: the same for the counts whose product stays below 2^31
C21_HoldsBelowIntOverflow ==
    lcall = "apply" =>
        \A c \in DOMAIN lpixels :
            lmem.A[c] >= 0 /\ BelowIntOverflow(lmem.A[c], lmax) => RoundedGray(c)


\* one of the two loops has been called
LoopCalled == lcall \in {"combine", "apply", "fault"}

\* the last call accessed every index in [0, lsize) once and no other index
EveryIndexOnce ==
    /\ DOMAIN ltouched = 0 .. (lsize - 1)
    /\ \A j \in DOMAIN ltouched : ltouched[j] = 1

(***************************************************************************)
(* C25: for every bufferSize >= 0, CombineDensityBuffers and               *)
(* ApplyDensityToPixelsSIMD read and write only element indices in         *)
(* [0, bufferSize) and process every index in [0, bufferSize) exactly      *)
(* once, also when bufferSize is not a multiple of 8.  It fails for every  *)
(* bufferSize that is not a multiple of 8.                                 *)
(***************************************************************************)
C25_LoopsAccessExactlyTheBuffer == LoopCalled => EveryIndexOnce

\* what does hold: the same for the multiples of 8
C25_HoldsForLaneMultiples ==
    LoopCalled /\ lsize % LaneWidth = 0 => EveryIndexOnce


\* a step of the kinematics callback of slot i that updates one block
KernelStep(i) ==
    /\ i \in DOMAIN kin /\ i \in DOMAIN kin'
    /\ kin[i].st = "running" /\ kin'[i].st = "running"
    /\ kin'[i].it = kin[i].it + LaneWidth

\* particle k is exactly at the attractor m, with a finite velocity
AtAttractor(k, m) ==
    /\ posX[k] = m[1] /\ posY[k] = m[2]
    /\ IsFinite(velX[k]) /\ IsFinite(velY[k])

(***************************************************************************)
(* C22: after one kinematics tick, a particle located exactly at the       *)
(* attractor (distance 0) has finite position and velocity.  Stated for    *)
(* every block update of a kinematics callback.  It fails: 0 / 0 is NaN.   *)
(***************************************************************************)
C22_ZeroDistanceStaysFinite ==
    [][\A i \in DOMAIN kin : KernelStep(i) =>
          \A k \in Block(kin[i].it) \cap DOMAIN posX :
              AtAttractor(k, args[kin[i].ctx].mousePos) =>
                  /\ IsFinite(posX'[k]) /\ IsFinite(posY'[k])
                  /\ IsFinite(velX'[k]) /\ IsFinite(velY'[k])]_vars


\* this step is a step of the kinematics callback of slot i
KinCallbackStep(i) ==
    /\ i \in DOMAIN kin /\ i \in DOMAIN kin'
    /\ kin[i].st \in {"submitted", "running"}
    /\ kin'[i] # kin[i]
    /\ kin'[i].st \in {"running", "done"}

\* the particle count and the four allocations behind the array pointers
ParticleLayout ==
    <<count, DOMAIN posX, DOMAIN posY, DOMAIN velX, DOMAIN velY,
      failed \cap ArrayNames>>

(***************************************************************************)
(* C23: per-frame operations change only what they own.  The particle      *)
(* count and the four array pointers never change after CreateParticles;   *)
(* a step of a kinematics callback leaves both density buffers and the     *)
(* pixel array unchanged; a step of a density writer or of the combiner    *)
(* leaves every position and velocity unchanged; and the combiner leaves   *)
(* bufferB unchanged.                                                      *)
(***************************************************************************)
C23_FrameStepsChangeOnlyWhatTheyOwn ==
    [][/\ pc \notin {"assert", "startup"} => ParticleLayout' = ParticleLayout
       /\ \A i \in DOMAIN kin :
             KinCallbackStep(i) => UNCHANGED <<buffer, pixels>>
       /\ \A b \in DOMAIN den :
             WriterStep(b) => UNCHANGED particleArrays
       /\ CombinerStep =>
             /\ UNCHANGED particleArrays
             /\ buffer'["B"] = buffer["B"]]_vars

\* the combiner has added a non-empty bufferB into bufferA, in a frame
\* whose kinematics callbacks moved the particles
C23_Witness ==
    /\ pc = "apply"
    /\ \E k \in DOMAIN updated : updated[k] > 0 /\ IsFinite(posX[k])
    /\ \E c \in Cells :
          buffer["B"][c] > 0 /\ buffer["A"][c] >= buffer["B"][c]


(***************************************************************************)
(* The particle system under fair scheduling: the main thread takes a step *)
(* when it can take one, and so do the pool's worker threads (a pending    *)
(* callback is picked up when a pool thread is free, a running callback    *)
(* goes on).                                                               *)
(***************************************************************************)
MainStep ==
    \/ MainAssert \/ Startup \/ FrameBegin \/ KinSubmit \/ KinJoin
    \/ DenCreate \/ DenSubmitA \/ DenSubmitB \/ DenWaitA \/ DenWaitB
    \/ DenClose \/ Combine \/ ApplyDensity \/ Draw \/ Shutdown

WorkerStep ==
    \/ \E i \in Slots : KinStart(i) \/ KinBlock(i) \/ KinFault(i) \/ KinFinish(i)
    \/ \E b \in BufferNames : DenStart(b) \/ DenFinish(b)

FairSpec == Spec /\ WF_vars(MainStep) /\ WF_vars(WorkerStep)

\* a frame has started: the main thread enters UpdateParticlesMultithreaded
FrameStarted == pc = "kin_submit" /\ idx = 0

(***************************************************************************)
(* C24: every frame that starts eventually reaches the combiner, under     *)
(* weak fairness of the worker threads, with any number of pool threads    *)
(* >= 1 and any completion order of the callbacks.  It fails for the       *)
(* frames that end in an access violation.                                 *)
(***************************************************************************)
C24_StartedFrameReachesCombiner == FrameStarted ~> pc = "combine"

\* what does hold: a started frame reaches the combiner unless the process
\* has ended in an access violation; no join waits forever
C24_JoinsReturnUnlessCrashed == FrameStarted ~> pc \in {"combine", "crashed"}

====
